---- MODULE Spec2Model ----
(***************************************************************************)
(* Model of mywork/lab4/iss.py: the ISS extract / transform / load         *)
(* pipeline.  One run of the script is the sequence                        *)
(*   Invoke -> MainCheckArgs -> ExtractStep -> TransformStep -> LoadStep   *)
(*          -> MainReturn                                                  *)
(* and runs follow one another on the same file system.                    *)
(*                                                                         *)
(* Conventions of the model                                                *)
(*  - text is a sequence of one-character strings;                         *)
(*  - a Python float is held in hundredths (10.5 is 1050);                 *)
(*  - a Python int is [big, n]: n when the value fits 32 bits,             *)
(*    big = TRUE for an integer past year 9999 as a timestamp              *)
(*    (253402300800 and up), which int() accepts and                       *)
(*    datetime.fromtimestamp rejects;                                      *)
(*  - a file is [exists, content]; the content of a CSV file is a sequence *)
(*    of tokens (header cells, row cells, line terminator, torn fragment). *)
(***************************************************************************)
EXTENDS Integers, Sequences, FiniteSets, TLC

\* Bounds of the model (not program constants).
MaxRuns == 3
MaxArgs == 2

VARIABLES
    pc,          \* position of the process: idle, main, extract, transform, load, return, exit
    argv,        \* sys.argv[1:], the command-line arguments of the current run
    runs,        \* number of runs started so far
    calls,       \* the stages the current run has called, in order
    exitCode,    \* exit status of the current run (-1 while it is running)
    record,      \* what extract() returned to main()
    df,          \* what transform() returned to main()
    fs,          \* the CSV files, by path
    snapshot,    \* the file iss_raw.json
    requests,    \* number of HTTP requests the current run has issued
    tz,          \* local time zone of the machine, seconds east of UTC
    ext,         \* outcome of the last extract() call
    ld,          \* outcome of the last load() call
    fsAtStart,   \* fs when the current run started
    snapAtStart, \* snapshot when the current run started
    loaded       \* by path, the number of load() calls that wrote their row

vars == <<pc, argv, runs, calls, exitCode, record, df, fs, snapshot, requests,
          tz, ext, ld, fsAtStart, snapAtStart, loaded>>

----------------------------------------------------------------------------
(* Text helpers *)

Digit == {"0", "1", "2", "3", "4", "5", "6", "7", "8", "9"}

DigitVal(c) ==
    CASE c = "0" -> 0 [] c = "1" -> 1 [] c = "2" -> 2 [] c = "3" -> 3
      [] c = "4" -> 4 [] c = "5" -> 5 [] c = "6" -> 6 [] c = "7" -> 7
      [] c = "8" -> 8 [] c = "9" -> 9

DigitChar(d) ==
    CASE d = 0 -> "0" [] d = 1 -> "1" [] d = 2 -> "2" [] d = 3 -> "3"
      [] d = 4 -> "4" [] d = 5 -> "5" [] d = 6 -> "6" [] d = 7 -> "7"
      [] d = 8 -> "8" [] d = 9 -> "9"

IsDigits(s) == Len(s) > 0 /\ \A i \in 1..Len(s) : s[i] \in Digit

RECURSIVE NatOf(_)
NatOf(s) == IF s = <<>> THEN 0
            ELSE 10 * NatOf(SubSeq(s, 1, Len(s) - 1)) + DigitVal(s[Len(s)])

HasSign(s) == Len(s) > 0 /\ s[1] \in {"-", "+"}
Unsigned(s) == IF HasSign(s) THEN Tail(s) ELSE s
SignOf(s) == IF Len(s) > 0 /\ s[1] = "-" THEN -1 ELSE 1

\* n rendered in decimal, zero-padded on the left to at least w characters
\* (the %Y, %m, %d, %H, %M, %S conversions of strftime for n >= 0).
RECURSIVE Pad(_, _)
Pad(n, w) == IF n < 10 /\ w <= 1 THEN <<DigitChar(n)>>
             ELSE Append(Pad(n \div 10, w - 1), DigitChar(n % 10))

----------------------------------------------------------------------------
(* JSON values of the raw record *)

Missing == [t |-> "missing", s |-> <<>>, n |-> 0]
Null    == [t |-> "null", s |-> <<>>, n |-> 0]
Str(s)  == [t |-> "str", s |-> s, n |-> 0]
JInt(n) == [t |-> "int", s |-> <<>>, n |-> n]
Flt(h)  == [t |-> "flt", s |-> <<>>, n |-> h]
Big     == [t |-> "big", s |-> <<>>, n |-> 0]

PosMissing == [t |-> "missing", latitude |-> Missing, longitude |-> Missing]
PosOf(lat, lon) == [t |-> "obj", latitude |-> lat, longitude |-> lon]
PosNot(t) == [t |-> t, latitude |-> Missing, longitude |-> Missing]

Dict(ts, pos, other) ==
    [t |-> "obj", timestamp |-> ts, iss_position |-> pos, other |-> other]
NonDict(t) ==
    [t |-> t, timestamp |-> Missing, iss_position |-> PosMissing, other |-> FALSE]

\* The empty mapping {}.
EmptyDict == Dict(Missing, PosMissing, FALSE)

\* Python truth value of a mapping: `not record`.
IsEmptyRecord(r) ==
    r.t = "obj" /\ r.timestamp.t = "missing" /\ r.iss_position.t = "missing" /\ ~r.other

----------------------------------------------------------------------------
(* Coercions int(...) and float(...) *)

PyInt(n) == [big |-> FALSE, n |-> n]
PyBig    == [big |-> TRUE, n |-> 0]
NoInt    == [big |-> FALSE, n |-> 0]

\* Truncation toward zero of h hundredths (int() of a float).
TruncHundredths(h) == IF h >= 0 THEN h \div 100 ELSE -((-h) \div 100)

\* int(x): [exc, v]; exc is "" when the coercion succeeds.
IntOf(x) ==
    CASE x.t = "int" -> [exc |-> "", v |-> PyInt(x.n)]
      [] x.t = "big" -> [exc |-> "", v |-> PyBig]
      [] x.t = "flt" -> [exc |-> "", v |-> PyInt(TruncHundredths(x.n))]
      [] x.t = "str" ->
            IF IsDigits(Unsigned(x.s))
            THEN [exc |-> "", v |-> PyInt(SignOf(x.s) * NatOf(Unsigned(x.s)))]
            ELSE [exc |-> "ValueError", v |-> NoInt]
      [] OTHER -> [exc |-> "TypeError", v |-> NoInt]

DotsOf(s) == {i \in 1..Len(s) : s[i] = "."}

\* Value in hundredths of the fractional digits f (at most two are modelled).
FracHundredths(f) ==
    CASE Len(f) = 0 -> 0
      [] Len(f) = 1 -> 10 * NatOf(f)
      [] OTHER -> NatOf(SubSeq(f, 1, 2))

\* float(x): [exc, v], v in hundredths.
FloatOf(x) ==
    CASE x.t = "int" -> [exc |-> "", v |-> 100 * x.n]
      [] x.t = "flt" -> [exc |-> "", v |-> x.n]
      [] x.t = "str" ->
            LET u == Unsigned(x.s)
                dots == DotsOf(u)
            IN  IF dots = {} THEN
                    IF IsDigits(u)
                    THEN [exc |-> "", v |-> SignOf(x.s) * 100 * NatOf(u)]
                    ELSE [exc |-> "ValueError", v |-> 0]
                ELSE IF Cardinality(dots) = 1 THEN
                    LET i == CHOOSE j \in dots : TRUE
                        ip == SubSeq(u, 1, i - 1)
                        fp == SubSeq(u, i + 1, Len(u))
                        digits == \A j \in 1..Len(u) : j = i \/ u[j] \in Digit
                    IN  IF digits /\ Len(ip) + Len(fp) >= 1
                        THEN [exc |-> "",
                              v |-> SignOf(x.s) * (100 * NatOf(ip) + FracHundredths(fp))]
                        ELSE [exc |-> "ValueError", v |-> 0]
                ELSE [exc |-> "ValueError", v |-> 0]
      [] OTHER -> [exc |-> "TypeError", v |-> 0]

----------------------------------------------------------------------------
(* datetime.fromtimestamp(ts, tz=timezone.utc) and strftime *)

DaysBeforeMonth(m) ==
    CASE m = 1 -> 0 [] m = 2 -> 31 [] m = 3 -> 59 [] m = 4 -> 90
      [] m = 5 -> 120 [] m = 6 -> 151 [] m = 7 -> 181 [] m = 8 -> 212
      [] m = 9 -> 243 [] m = 10 -> 273 [] m = 11 -> 304 [] m = 12 -> 334
      [] OTHER -> 365

DaysInMonth(m) ==
    CASE m \in {4, 6, 9, 11} -> 30 [] m = 2 -> 28 [] OTHER -> 31

\* Proleptic Gregorian ordinal (1 = 0001-01-01) to <<year, month, day>>.
OrdToYmd(ordinal) ==
    LET n0   == ordinal - 1
        n400 == n0 \div 146097
        r400 == n0 % 146097
        n100 == r400 \div 36524
        r100 == r400 % 36524
        n4   == r100 \div 1461
        r4   == r100 % 1461
        n1   == r4 \div 365
        n    == r4 % 365
        year == n400 * 400 + 1 + n100 * 100 + n4 * 4 + n1
        leap == n1 = 3 /\ (n4 # 24 \/ n100 = 3)
        lp(m) == IF m > 2 /\ leap THEN 1 ELSE 0
        m0   == (n + 50) \div 32
        pre0 == DaysBeforeMonth(m0) + lp(m0)
        month == IF pre0 > n THEN m0 - 1 ELSE m0
        pre  == IF pre0 > n
                THEN pre0 - (DaysInMonth(m0 - 1) + (IF m0 - 1 = 2 /\ leap THEN 1 ELSE 0))
                ELSE pre0
    IN  IF n1 = 4 \/ n100 = 4 THEN <<year - 1, 12, 31>>
        ELSE <<year, month, n - pre + 1>>

\* The aware datetime for `secs` seconds since the epoch, shifted by `offset`
\* seconds: <<year, month, day, hour, minute, second>>.
DateTimeAt(secs, offset) ==
    LET t    == secs + offset
        days == t \div 86400
        rem  == t % 86400
        ymd  == OrdToYmd(days + 719163)
    IN  <<ymd[1], ymd[2], ymd[3], rem \div 3600, (rem % 3600) \div 60, rem % 60>>

\* The mutant of FromTimestamp: datetime.fromtimestamp(ts) without tz, which
\* renders the local time.
FromTimestampLocal(ts, localOffset) ==
    IF ts.big THEN [exc |-> "ValueError", dt |-> <<0, 0, 0, 0, 0, 0>>]
    ELSE [exc |-> "", dt |-> DateTimeAt(ts.n, localOffset)]

\* datetime.fromtimestamp(ts, tz=timezone.utc): [exc, dt].  The local time
\* zone of the machine is not consulted.
FromTimestamp(ts, localOffset) ==
    IF ts.big THEN [exc |-> "ValueError", dt |-> <<0, 0, 0, 0, 0, 0>>]
    ELSE [exc |-> "", dt |-> DateTimeAt(ts.n, 0)]

\* dt.strftime("%Y-%m-%d %H:%M:%S").  The timestamps of the model lie in the
\* years 1901 to 2037, where %Y is four digits on every platform.
Strftime(dt) ==
    Pad(dt[1], 4) \o <<"-">> \o Pad(dt[2], 2) \o <<"-">> \o Pad(dt[3], 2) \o <<" ">>
        \o Pad(dt[4], 2) \o <<":">> \o Pad(dt[5], 2) \o <<":">> \o Pad(dt[6], 2)

----------------------------------------------------------------------------
(* transform() *)

Columns == <<"timestamp_unix", "timestamp_utc", "latitude", "longitude">>

NoRow == [timestamp_unix |-> 0, timestamp_utc |-> <<>>, latitude |-> 0, longitude |-> 0]

\* pd.DataFrame(): no columns, no rows.
EmptyFrame == [columns |-> <<>>, rows |-> <<>>]

\* df.empty
FrameEmpty(d) == d.rows = <<>> \/ d.columns = <<>>

\* Subscripting record[key] / pos[key]: the exception it raises, "" if none.
SubscriptExc(container, field) ==
    CASE container.t # "obj" -> "TypeError"
      [] field.t = "missing" -> "KeyError"
      [] OTHER -> ""

\* The try block of transform(): [exc, df].
TransformTry(r, localOffset) ==
    LET e1  == SubscriptExc(r, r.timestamp)
        ts  == IntOf(r.timestamp)
        e2  == SubscriptExc(r, r.iss_position)
        pos == r.iss_position
        e3  == SubscriptExc(pos, pos.latitude)
        lat == FloatOf(pos.latitude)
        e4  == SubscriptExc(pos, pos.longitude)
        lon == FloatOf(pos.longitude)
        dt  == FromTimestamp(ts.v, localOffset)
    IN  CASE e1 # ""      -> [exc |-> e1, df |-> EmptyFrame]
          [] ts.exc # ""  -> [exc |-> ts.exc, df |-> EmptyFrame]
          [] e2 # ""      -> [exc |-> e2, df |-> EmptyFrame]
          [] e3 # ""      -> [exc |-> e3, df |-> EmptyFrame]
          [] lat.exc # "" -> [exc |-> lat.exc, df |-> EmptyFrame]
          [] e4 # ""      -> [exc |-> e4, df |-> EmptyFrame]
          [] lon.exc # "" -> [exc |-> lon.exc, df |-> EmptyFrame]
          [] dt.exc # ""  -> [exc |-> dt.exc, df |-> EmptyFrame]
          [] OTHER ->
                [exc |-> "",
                 df  |-> [columns |-> Columns,
                          rows |-> << [timestamp_unix |-> ts.v.n,
                                       timestamp_utc  |-> Strftime(dt.dt),
                                       latitude       |-> lat.v,
                                       longitude      |-> lon.v] >>]]

\* The mutant of TransformCatches: `except KeyError`.
TransformCatchesKeyError(exc) == exc = "KeyError"

\* `except Exception` of transform(): the exceptions it catches.
TransformCatches(exc) == exc # ""

\* transform(record, logger): [raised, df]; raised is the exception that
\* leaves the function, "" when it returns.
transform(r, localOffset) ==
    IF IsEmptyRecord(r) THEN [raised |-> "", df |-> EmptyFrame]
    ELSE LET t == TransformTry(r, localOffset)
         IN  IF t.exc = "" THEN [raised |-> "", df |-> t.df]
             ELSE IF TransformCatches(t.exc) THEN [raised |-> "", df |-> EmptyFrame]
             ELSE [raised |-> t.exc, df |-> EmptyFrame]

----------------------------------------------------------------------------
(* Files *)

Paths == {"a.csv", "b.csv"}

AbsentFile == [exists |-> FALSE, content |-> <<>>]

\* Tokens of a CSV file's text.
HeaderCells(cols) == [k |-> "cells", hdr |-> TRUE, cols |-> cols, row |-> NoRow]
RowCells(r)       == [k |-> "cells", hdr |-> FALSE, cols |-> <<>>, row |-> r]
LineEnd           == [k |-> "nl", hdr |-> FALSE, cols |-> <<>>, row |-> NoRow]
\* A torn fragment: a non-empty proper prefix of the text of a line.
TornCells         == [k |-> "torn", hdr |-> FALSE, cols |-> <<>>, row |-> NoRow]

\* Tokens of the snapshot's text: the JSON text of a value at an indent, or
\* a torn (truncated, unparseable) piece of one.
JsonText(val, indent) == [k |-> "json", indent |-> indent, val |-> val]
TornJson              == [k |-> "torn", indent |-> 0, val |-> EmptyDict]

\* How an open-and-write went: the open succeeded or not, the number n of
\* whole tokens that reached the file, and whether a fragment of the next
\* token followed them.
WriteOutcomes(text, tearable) ==
    {w \in [open : BOOLEAN, n : 0..Len(text), frag : BOOLEAN] :
        /\ ~w.open => (w.n = 0 /\ ~w.frag)
        /\ w.frag => (tearable /\ w.n < Len(text) /\ text[w.n + 1].k # "nl")}

Written(text, w, torn) == SubSeq(text, 1, w.n) \o (IF w.frag THEN <<torn>> ELSE <<>>)

WriteExc(text, w) == IF w.open /\ w.n = Len(text) THEN "" ELSE "OSError"

\* The mutant of OpenAppendWrite: the file is opened with mode "w".
AppendWriteTruncating(file, text, w, torn) ==
    IF ~w.open THEN file
    ELSE [exists |-> TRUE, content |-> Written(text, w, torn)]

\* open(path, "a") then write: the existing content is kept.
OpenAppendWrite(file, text, w, torn) ==
    IF ~w.open THEN file
    ELSE [exists |-> TRUE, content |-> file.content \o Written(text, w, torn)]

\* open(path, "w") then write: the existing content is dropped by the open.
OpenTruncWrite(file, text, w, torn) ==
    IF ~w.open THEN file
    ELSE [exists |-> TRUE, content |-> Written(text, w, torn)]

----------------------------------------------------------------------------
(* extract() *)

\* json.dump(data, f, indent=2)
JsonDump(data) == <<JsonText(data, 2)>>

\* json.load of a file's text: [ok, val].
JsonLoads(content) ==
    IF Len(content) = 1 /\ content[1].k = "json"
    THEN [ok |-> TRUE, val |-> content[1].val]
    ELSE [ok |-> FALSE, val |-> EmptyDict]

\* The try block of extract(): [exc, data, snap].  env is what the network
\* and the disk do: http (the outcome of requests.get), status, body, and w
\* (how the write of iss_raw.json goes).
ExtractTry(env, snap) ==
    CASE env.http # "ok" ->
            [exc |-> env.http, data |-> EmptyDict, snap |-> snap]
      [] env.status >= 400 ->
            [exc |-> "HTTPError", data |-> EmptyDict, snap |-> snap]
      [] env.body.k # "json" ->
            [exc |-> "JSONDecodeError", data |-> EmptyDict, snap |-> snap]
      [] OTHER ->
            LET data == env.body.val
                text == JsonDump(data)
                file == OpenTruncWrite(snap, text, env.w, TornJson)
            IN  CASE WriteExc(text, env.w) # "" ->
                        [exc |-> "OSError", data |-> EmptyDict, snap |-> file]
                  [] data.t # "obj" ->
                        [exc |-> "AttributeError", data |-> EmptyDict, snap |-> file]
                  [] OTHER ->
                        [exc |-> "", data |-> data, snap |-> file]

\* `except requests.RequestException` and `except ValueError` of extract().
ExtractCatches(exc) ==
    exc \in {"ConnectionError", "Timeout", "HTTPError", "JSONDecodeError"}

\* The mutant of extract: the snapshot is written in the handlers too.
extractSnapshotAlways(env, snap) ==
    LET t == ExtractTry(env, snap)
    IN  IF t.exc = "" THEN [raised |-> "", data |-> t.data, snap |-> t.snap]
        ELSE IF ExtractCatches(t.exc)
        THEN [raised |-> "", data |-> EmptyDict,
              snap |-> [exists |-> TRUE, content |-> JsonDump(EmptyDict)]]
        ELSE [raised |-> t.exc, data |-> EmptyDict, snap |-> t.snap]

\* extract(logger): [raised, data, snap].
extract(env, snap) ==
    LET t == ExtractTry(env, snap)
    IN  IF t.exc = "" THEN [raised |-> "", data |-> t.data, snap |-> t.snap]
        ELSE IF ExtractCatches(t.exc)
        THEN [raised |-> "", data |-> EmptyDict, snap |-> t.snap]
        ELSE [raised |-> t.exc, data |-> EmptyDict, snap |-> t.snap]

----------------------------------------------------------------------------
(* load() *)

RECURSIVE RowLines(_)
RowLines(rows) ==
    IF rows = <<>> THEN <<>>
    ELSE <<RowCells(Head(rows)), LineEnd>> \o RowLines(Tail(rows))

\* The text df.to_csv(..., header=header, index=False) writes.
ToCsv(d, header) ==
    (IF header THEN <<HeaderCells(d.columns), LineEnd>> ELSE <<>>) \o RowLines(d.rows)

\* The mutant of LoadText: header=True on every call.
LoadTextAlwaysHeader(d, file) == ToCsv(d, TRUE)

\* The text load() writes to a file: header only when the file is absent.
LoadText(d, file) == ToCsv(d, ~file.exists)

\* `except Exception` of load().
LoadCatches(exc) == exc # ""

\* The mutant of load: the empty-frame guard is missing.
loadNoGuard(d, file, w) ==
    LET text == LoadText(d, file)
        w1   == IF FrameEmpty(d) THEN [open |-> TRUE, n |-> Len(text), frag |-> FALSE] ELSE w
    IN  [raised |-> "",
         file |-> OpenAppendWrite(file, text, w1, TornCells),
         wrote |-> WriteExc(text, w1) = ""]

\* load(df, csv_file, logger) on the file at csv_file: [raised, file, wrote].
\* w is how the open-and-write goes; wrote says the whole text was written.
load(d, file, w) ==
    IF FrameEmpty(d) THEN [raised |-> "", file |-> file, wrote |-> FALSE]
    ELSE LET text == LoadText(d, file)
             exc  == WriteExc(text, w)
         IN  [raised |-> IF LoadCatches(exc) THEN "" ELSE exc,
              file |-> OpenAppendWrite(file, text, w, TornCells),
              wrote |-> exc = ""]

\* The write outcomes load() can meet for frame d on `file`.
LoadOutcomes(d, file) ==
    IF FrameEmpty(d) THEN {[open |-> FALSE, n |-> 0, frag |-> FALSE]}
    ELSE WriteOutcomes(LoadText(d, file), TRUE)

----------------------------------------------------------------------------
(* What the network serves and the command line holds *)

Chars(str) ==
    CASE str = "10.5"   -> <<"1", "0", ".", "5">>
      [] str = "-20.25" -> <<"-", "2", "0", ".", "2", "5">>
      [] str = "abc"    -> <<"a", "b", "c">>
      [] str = "12.5"   -> <<"1", "2", ".", "5">>
      [] str = "86400"  -> <<"8", "6", "4", "0", "0">>
      [] str = "7."     -> <<"7", ".">>
      [] str = "."      -> <<".">>
      [] OTHER          -> <<>>

GoodPos == PosOf(Str(Chars("10.5")), Str(Chars("-20.25")))

\* The JSON values the endpoint serves in the pipeline specification.
Payloads ==
    { Dict(JInt(1700000000), GoodPos, TRUE),
      Dict(JInt(0), PosOf(Flt(-4550), JInt(7)), FALSE),
      Dict(Str(Chars("abc")), GoodPos, TRUE),
      Dict(Big, GoodPos, TRUE),
      Dict(JInt(1700000000), PosMissing, TRUE),
      EmptyDict,
      NonDict("list") }

Garbage == [k |-> "garbage", indent |-> 0, val |-> EmptyDict]

\* The response bodies: compact JSON text of a payload, or text that is not JSON.
Bodies == {JsonText(v, 0) : v \in Payloads} \cup {Garbage}

WriteOk(text) == [open |-> TRUE, n |-> Len(text), frag |-> FALSE]

\* What the network and the disk can do to one extract() call.
ExtractEnvs ==
    {[http |-> h, status |-> 200, body |-> Garbage, w |-> WriteOk(<<>>)] :
        h \in {"ConnectionError", "Timeout"}}
    \cup {[http |-> "ok", status |-> st, body |-> Garbage, w |-> WriteOk(<<>>)] :
        st \in {200, 404, 503}}
    \cup {[http |-> "ok", status |-> 200, body |-> b, w |-> w] :
        b \in Bodies \ {Garbage}, w \in WriteOutcomes(JsonDump(EmptyDict), TRUE)}

RECURSIVE SeqsUpTo(_, _)
SeqsUpTo(S, n) ==
    IF n = 0 THEN {<<>>}
    ELSE LET shorter == SeqsUpTo(S, n - 1)
         IN  shorter \cup {Append(q, x) : q \in shorter, x \in S}

\* The argument lists a run can be started with.
ArgLists == SeqsUpTo(Paths, MaxArgs)

LocalOffsets == {-18000, 0, 32400}

----------------------------------------------------------------------------
(* The state machine *)

NoExt == [called |-> FALSE, ok |-> FALSE, parsed |-> FALSE, opened |-> FALSE,
          wrote |-> FALSE, raised |-> "", payload |-> EmptyDict]

NoLd == [called |-> FALSE, path |-> "", before |-> AbsentFile, wrote |-> FALSE,
         opened |-> FALSE, raised |-> ""]

InitFiles ==
    /\ fs = [p \in Paths |-> AbsentFile]
    /\ snapshot = AbsentFile
    /\ fsAtStart = [p \in Paths |-> AbsentFile]
    /\ snapAtStart = AbsentFile
    /\ loaded = [p \in Paths |-> 0]
    /\ requests = 0
    /\ ext = NoExt
    /\ ld = NoLd

Init ==
    /\ pc = "idle"
    /\ argv = <<>>
    /\ runs = 0
    /\ calls = <<>>
    /\ exitCode = -1
    /\ record = EmptyDict
    /\ df = EmptyFrame
    /\ tz = -18000
    /\ InitFiles

\* The mutant of ArgCountOk: `len(sys.argv) < 2` is the only usage error.
ArgCountAtLeastOne(args) == Len(args) + 1 >= 2

\* `len(sys.argv) != 2` negated; sys.argv is the script name and the arguments.
ArgCountOk(args) == Len(args) + 1 = 2

\* The script is started: raise SystemExit(main()).
Invoke(args) ==
    /\ pc \in {"idle", "exit"}
    /\ runs < MaxRuns
    /\ pc' = "main"
    /\ argv' = args
    /\ runs' = runs + 1
    /\ calls' = <<>>
    /\ exitCode' = -1
    /\ record' = EmptyDict
    /\ df' = EmptyFrame
    /\ ext' = NoExt
    /\ ld' = NoLd
    /\ fsAtStart' = fs
    /\ snapAtStart' = snapshot
    /\ requests' = 0
    /\ UNCHANGED <<fs, snapshot, tz, loaded>>

\* main() up to the call of extract: the argument check.
MainCheckArgs ==
    /\ pc = "main"
    /\ IF ArgCountOk(argv)
       THEN pc' = "extract" /\ exitCode' = exitCode
       ELSE pc' = "exit" /\ exitCode' = 2
    /\ UNCHANGED <<argv, runs, calls, record, df, fs, snapshot, requests, tz,
                   ext, ld, fsAtStart, snapAtStart, loaded>>

\* record = extract(logger).  An exception that leaves extract() leaves
\* main() too and the interpreter exits with status 1.
ExtractStep ==
    /\ pc = "extract"
    /\ \E env \in ExtractEnvs :
        LET r      == extract(env, snapshot)
            ok     == env.http = "ok" /\ env.status < 400
            parsed == ok /\ env.body.k = "json"
        IN  /\ calls' = Append(calls, "extract")
            /\ requests' = requests + 1
            /\ snapshot' = r.snap
            /\ record' = r.data
            /\ ext' = [called |-> TRUE, ok |-> ok, parsed |-> parsed,
                       opened |-> parsed /\ env.w.open,
                       wrote |-> parsed /\ WriteExc(JsonDump(env.body.val), env.w) = "",
                       raised |-> r.raised,
                       payload |-> IF parsed THEN env.body.val ELSE EmptyDict]
            /\ IF r.raised = ""
               THEN pc' = "transform" /\ exitCode' = exitCode
               ELSE pc' = "exit" /\ exitCode' = 1
    /\ UNCHANGED <<argv, runs, df, fs, tz, ld, fsAtStart, snapAtStart, loaded>>

\* df = transform(record, logger)
TransformStep ==
    /\ pc = "transform"
    /\ LET t == transform(record, tz)
       IN  /\ calls' = Append(calls, "transform")
           /\ df' = t.df
           /\ IF t.raised = ""
              THEN pc' = "load" /\ exitCode' = exitCode
              ELSE pc' = "exit" /\ exitCode' = 1
    /\ UNCHANGED <<argv, runs, record, fs, snapshot, requests, tz, ext, ld,
                   fsAtStart, snapAtStart, loaded>>

\* load(df, csv_file, logger) with csv_file = sys.argv[1]
LoadStep ==
    /\ pc = "load"
    /\ LET csv_file == argv[1]
       IN  \E w \in LoadOutcomes(df, fs[csv_file]) :
            LET r == load(df, fs[csv_file], w)
            IN  /\ calls' = Append(calls, "load")
                /\ fs' = [fs EXCEPT ![csv_file] = r.file]
                /\ loaded' = [loaded EXCEPT ![csv_file] = @ + (IF r.wrote THEN 1 ELSE 0)]
                /\ ld' = [called |-> TRUE, path |-> csv_file, before |-> fs[csv_file],
                          wrote |-> r.wrote, opened |-> w.open, raised |-> r.raised]
                /\ IF r.raised = ""
                   THEN pc' = "return" /\ exitCode' = exitCode
                   ELSE pc' = "exit" /\ exitCode' = 1
    /\ UNCHANGED <<argv, runs, record, df, snapshot, requests, tz, ext,
                   fsAtStart, snapAtStart>>

\* logger.info("Done."); return 0
MainReturn ==
    /\ pc = "return"
    /\ pc' = "exit"
    /\ exitCode' = 0
    /\ UNCHANGED <<argv, runs, calls, record, df, fs, snapshot, requests, tz,
                   ext, ld, fsAtStart, snapAtStart, loaded>>

Next ==
    \/ \E args \in ArgLists : Invoke(args)
    \/ MainCheckArgs
    \/ ExtractStep
    \/ TransformStep
    \/ LoadStep
    \/ MainReturn

Spec == Init /\ [][Next]_vars

----------------------------------------------------------------------------
(* transform() on its own: every record of a bounded set, in every local    *)
(* time zone of a bounded set.                                              *)

Timestamps ==
    { JInt(1700000000), JInt(0), JInt(-1), JInt(951782400), JInt(1078099199),
      JInt(2145916799), JInt(-2145916800), Flt(8639999), Flt(-50),
      Str(Chars("86400")), Str(Chars("12.5")), Str(Chars("abc")), Null, Missing, Big }

Coordinates ==
    { Str(Chars("10.5")), Str(Chars("-20.25")), Str(Chars("abc")), Str(Chars("7.")),
      Str(Chars(".")), Null, Missing, Flt(1050), JInt(7) }

Positions ==
    {PosOf(lat, lon) : lat \in Coordinates, lon \in Coordinates}
    \cup {PosMissing, PosNot("str"), PosNot("null")}

Records ==
    {Dict(ts, pos, TRUE) : ts \in Timestamps, pos \in Positions} \cup {EmptyDict}

InitT ==
    /\ pc = "transform"
    /\ argv = <<"a.csv">>
    /\ runs = 1
    /\ calls = <<"extract">>
    /\ exitCode = -1
    /\ record \in Records
    /\ df = EmptyFrame
    /\ tz \in LocalOffsets
    /\ InitFiles

NextT == TransformStep

SpecT == InitT /\ [][NextT]_vars

----------------------------------------------------------------------------
(* Properties *)

TransformReturned == Len(calls) >= 2 /\ calls[2] = "transform"

Present(x) == x.t # "missing"

\* Every field transform() reads is there and coerces to its type.
FieldsCoercible(r) ==
    /\ r.t = "obj"
    /\ Present(r.timestamp) /\ IntOf(r.timestamp).exc = ""
    /\ r.iss_position.t = "obj"
    /\ Present(r.iss_position.latitude) /\ FloatOf(r.iss_position.latitude).exc = ""
    /\ Present(r.iss_position.longitude) /\ FloatOf(r.iss_position.longitude).exc = ""

RowPopulated(d) ==
    /\ d.columns = Columns
    /\ Len(d.rows[1].timestamp_utc) > 0
    /\ d.rows[1].timestamp_unix \in Int
    /\ d.rows[1].latitude \in Int
    /\ d.rows[1].longitude \in Int

\* C7 as stated: transform() never raises, returns at most one row, zero
\* rows exactly when the record is empty or a field is missing or not
\* coercible, and otherwise one row with its four fields populated.
C7_AsStated ==
    TransformReturned =>
        /\ pc = "load"
        /\ Len(df.rows) <= 1
        /\ (Len(df.rows) = 1) <=> (~IsEmptyRecord(record) /\ FieldsCoercible(record))
        /\ Len(df.rows) = 1 => RowPopulated(df)

\* The timestamp, as an integer, is a time datetime can represent.
InDateRange(r) == ~IntOf(r.timestamp).v.big

\* C7 amended: transform() never raises and returns at most one row; it
\* returns zero rows when the record is empty, when a field is missing or
\* not coercible, or when the integer timestamp is outside the range of
\* dates datetime represents; otherwise exactly one row, four fields populated.
C7_Transform ==
    TransformReturned =>
        /\ pc = "load" /\ exitCode = -1
        /\ Len(df.rows) <= 1
        /\ (Len(df.rows) = 1) <=>
                (~IsEmptyRecord(record) /\ FieldsCoercible(record) /\ InDateRange(record))
        /\ Len(df.rows) = 1 => RowPopulated(df)

\* A record whose fields all coerce and whose timestamp is out of range has
\* gone through transform() and yielded no row.
C7_Witness ==
    /\ TransformReturned
    /\ FieldsCoercible(record)
    /\ ~InDateRange(record)
    /\ df.rows = <<>>

IsLeap(y) == y % 4 = 0 /\ (y % 100 # 0 \/ y % 400 = 0)

LeapsBefore(y) == (y - 1) \div 4 - (y - 1) \div 100 + (y - 1) \div 400

\* Seconds since the epoch of the UTC calendar time y-m-d h:mi:s.
Timegm(y, m, d, h, mi, s) ==
    LET days == 365 * (y - 1970) + (LeapsBefore(y) - LeapsBefore(1970))
                + DaysBeforeMonth(m) + (IF m > 2 /\ IsLeap(y) THEN 1 ELSE 0) + (d - 1)
    IN  days * 86400 + h * 3600 + mi * 60 + s

\* str is `YYYY-MM-DD HH:MM:SS` and names the UTC calendar time of ts.
IsUtcRendering(str, ts) ==
    /\ Len(str) = 19
    /\ str[5] = "-" /\ str[8] = "-" /\ str[11] = " " /\ str[14] = ":" /\ str[17] = ":"
    /\ \A i \in (1..19) \ {5, 8, 11, 14, 17} : str[i] \in Digit
    /\ LET y  == NatOf(SubSeq(str, 1, 4))
           m  == NatOf(SubSeq(str, 6, 7))
           d  == NatOf(SubSeq(str, 9, 10))
           h  == NatOf(SubSeq(str, 12, 13))
           mi == NatOf(SubSeq(str, 15, 16))
           s  == NatOf(SubSeq(str, 18, 19))
       IN  /\ m \in 1..12
           /\ d \in 1..(DaysInMonth(m) + (IF m = 2 /\ IsLeap(y) THEN 1 ELSE 0))
           /\ h \in 0..23 /\ mi \in 0..59 /\ s \in 0..59
           /\ Timegm(y, m, d, h, mi, s) = ts

\* v is the integer value of the JSON value x.
IsIntegerValueOf(v, x) ==
    CASE x.t = "int" -> v = x.n
      [] x.t = "flt" -> /\ 100 * v <= x.n + 99 /\ x.n - 99 <= 100 * v
                        /\ (x.n >= 0 => 100 * v <= x.n) /\ (x.n <= 0 => 100 * v >= x.n)
      [] x.t = "str" -> /\ Pad(IF v < 0 THEN -v ELSE v, Len(Unsigned(x.s))) = Unsigned(x.s)
                        /\ (v < 0 => x.s[1] = "-")
      [] OTHER -> FALSE

ExampleRecord == Dict(JInt(1700000000), GoodPos, TRUE)

ExampleRow ==
    [timestamp_unix |-> 1700000000,
     timestamp_utc  |-> <<"2", "0", "2", "3", "-", "1", "1", "-", "1", "4", " ",
                          "2", "2", ":", "1", "3", ":", "2", "0">>,
     latitude  |-> 1050,
     longitude |-> -2025]

\* C9: the row transform() returns has timestamp_unix equal to the integer
\* value of `timestamp` and timestamp_utc equal to the UTC rendering of it as
\* YYYY-MM-DD HH:MM:SS, whatever the local time zone; the record of the
\* end-to-end example yields (1700000000, "2023-11-14 22:13:20", 10.5, -20.25).
C9_UtcRendering ==
    (TransformReturned /\ Len(df.rows) = 1) =>
        /\ IsIntegerValueOf(df.rows[1].timestamp_unix, record.timestamp)
        /\ IsUtcRendering(df.rows[1].timestamp_utc, df.rows[1].timestamp_unix)
        /\ record = ExampleRecord => df.rows[1] = ExampleRow

\* The example record has been transformed on a machine whose local time is
\* not UTC.
C9_Witness ==
    /\ TransformReturned
    /\ record = ExampleRecord
    /\ tz # 0
    /\ df.rows = <<ExampleRow>>

----------------------------------------------------------------------------
(* Lines of a CSV file *)

LineStart(c, i) == i = 1 \/ c[i - 1].k = "nl"
LineStop(c, i)  == i = Len(c) \/ c[i + 1].k = "nl"

\* The lines that hold the cells of one data row and nothing else.
DataRows(c) ==
    Cardinality({i \in 1..Len(c) :
        c[i].k = "cells" /\ ~c[i].hdr /\ LineStart(c, i) /\ LineStop(c, i)})

\* The lines that hold the header and nothing else.
HeaderLines(c) ==
    Cardinality({i \in 1..Len(c) :
        c[i] = HeaderCells(Columns) /\ LineStart(c, i) /\ LineStop(c, i)})

EndsLine(c) == Len(c) > 0 /\ c[Len(c)].k = "nl"

IsPrefix(a, b) == Len(a) <= Len(b) /\ SubSeq(b, 1, Len(a)) = a

\* The header line followed by k data lines, each terminated.
IsLog(c, k) ==
    /\ Len(c) = 2 + 2 * k
    /\ c[1] = HeaderCells(Columns)
    /\ \A i \in 1..Len(c) :
        IF i % 2 = 0 THEN c[i].k = "nl"
        ELSE i > 1 => (c[i].k = "cells" /\ ~c[i].hdr)

LoadReturned == ld.called

----------------------------------------------------------------------------
(* Pipeline properties *)

\* C1 as stated: a run with exactly one argument calls extract, transform
\* and load, in that order, once each, and ends completed with exit code 0,
\* whatever the stages meet.
C1_AsStated ==
    /\ calls \in {<<>>, <<"extract">>, <<"extract", "transform">>,
                  <<"extract", "transform", "load">>}
    /\ (pc = "exit" /\ ArgCountOk(argv)) =>
            (exitCode = 0 /\ calls = <<"extract", "transform", "load">>)

\* C2 as stated: extract() never raises past its boundary, and returns the
\* empty mapping when the request fails or the body is not JSON.
C2_AsStated ==
    ext.called =>
        /\ ext.raised = ""
        /\ ~ext.parsed => IsEmptyRecord(record)

\* C3 as stated: load() of one row on a present file with N data rows
\* leaves N+1 data rows and exactly one header line.
C3_AsStated ==
    (LoadReturned /\ Len(df.rows) = 1 /\ ld.before.exists) =>
        /\ DataRows(fs[ld.path].content) = DataRows(ld.before.content) + 1
        /\ HeaderLines(fs[ld.path].content) = 1

\* C3 amended: load() of one row on a present file that holds exactly one
\* header line and N data rows and ends with a line terminator, when its
\* write succeeds, leaves N+1 data rows and exactly one header line: the row
\* is appended as one line and no header is emitted by the call.
C3_LoadAppends ==
    (/\ LoadReturned /\ Len(df.rows) = 1 /\ ld.wrote
     /\ ld.before.exists /\ HeaderLines(ld.before.content) = 1
     /\ EndsLine(ld.before.content)) =>
        /\ DataRows(fs[ld.path].content) = DataRows(ld.before.content) + 1
        /\ HeaderLines(fs[ld.path].content) = 1
        /\ fs[ld.path].content = ld.before.content \o <<RowCells(df.rows[1]), LineEnd>>

\* load() has appended a row to a file that already held a header and a row.
C3_Witness ==
    /\ LoadReturned /\ ld.wrote
    /\ ld.before.exists
    /\ HeaderLines(ld.before.content) = 1
    /\ EndsLine(ld.before.content)
    /\ DataRows(ld.before.content) >= 1

\* C4 as stated: from an absent file, after any runs the CSV log is absent
\* or is the header line followed by exactly k data lines, k the number of
\* runs that loaded a row.
C4_AsStated ==
    \A p \in Paths : ~fs[p].exists \/ IsLog(fs[p].content, loaded[p])

\* C5: the content a CSV file held before a step is a prefix of the content
\* it holds after it, and a file that exists keeps existing: load() only
\* appends.
C5_AppendOnly ==
    [][\A p \in Paths :
            /\ fs[p].exists => fs'[p].exists
            /\ IsPrefix(fs[p].content, fs'[p].content)]_vars

\* load() has changed a file that held content, and load() has failed on one.
C5_Witness ==
    /\ LoadReturned
    /\ Len(ld.before.content) >= 2
    /\ fs[ld.path] # ld.before
    /\ ~ld.wrote

\* C6: in a run where extract() returned the empty mapping or transform()
\* returned zero rows, the CSV files are as they were when the run started.
C6_FailedRunWritesNothing ==
    (\/ (ext.called /\ ext.raised = "" /\ IsEmptyRecord(record))
     \/ (TransformReturned /\ FrameEmpty(df))) =>
        /\ fs = fsAtStart
        /\ LoadReturned => ~ld.wrote

\* A failed run has gone through load() on a file an earlier run wrote.
C6_Witness ==
    /\ pc = "exit" /\ exitCode = 0
    /\ LoadReturned
    /\ FrameEmpty(df)
    /\ fs[ld.path].exists
    /\ DataRows(fs[ld.path].content) >= 1

\* C8: a run started with zero or with two or more arguments ends with exit
\* code 2 having called no stage, issued no request and left the snapshot
\* and every CSV file as they were.
C8_UsageError ==
    (pc = "exit" /\ Len(argv) # 1) =>
        /\ exitCode = 2
        /\ calls = <<>>
        /\ requests = 0
        /\ ~ext.called /\ ~LoadReturned
        /\ fs = fsAtStart
        /\ snapshot = snapAtStart

\* A run with two arguments has ended after an earlier run wrote both files.
C8_Witness ==
    /\ pc = "exit"
    /\ Len(argv) >= 2
    /\ exitCode = 2
    /\ snapshot.exists
    /\ fs[argv[1]].exists

\* C10 as stated: the snapshot changes only in an extract() whose request
\* and parse succeeded, after which it holds that call's payload, the value
\* extract() returns; a failing extract() leaves it as it was.
C10_AsStated ==
    /\ ~ext.called => snapshot = snapAtStart
    /\ (ext.called /\ ~ext.parsed) => snapshot = snapAtStart
    /\ (ext.called /\ ext.parsed) =>
            /\ snapshot.exists
            /\ JsonLoads(snapshot.content) = [ok |-> TRUE, val |-> ext.payload]
            /\ ext.raised = "" /\ record = ext.payload

\* C10 amended: the snapshot changes only in an extract() whose request and
\* parse succeeded.  When that call's write completes the snapshot holds
\* exactly its payload (the value extract() returns when the payload is a
\* mapping); when the open fails the snapshot is left as it was; when the
\* write fails after the open the snapshot is left truncated.  An extract()
\* whose request or parse fails leaves the snapshot as it was.
C10_Snapshot ==
    /\ ~ext.called => snapshot = snapAtStart
    /\ (ext.called /\ ~ext.parsed) => snapshot = snapAtStart
    /\ (ext.called /\ ext.parsed /\ ext.wrote) =>
            /\ snapshot = [exists |-> TRUE, content |-> <<JsonText(ext.payload, 2)>>]
            /\ JsonLoads(snapshot.content) = [ok |-> TRUE, val |-> ext.payload]
            /\ ext.payload.t = "obj" => (ext.raised = "" /\ record = ext.payload)
    /\ (ext.called /\ ext.parsed /\ ~ext.opened) => snapshot = snapAtStart
    /\ (ext.called /\ ext.parsed /\ ext.opened /\ ~ext.wrote) =>
            (snapshot.exists /\ ~JsonLoads(snapshot.content).ok)

\* A successful extract() has replaced the payload an earlier run left, and
\* the payload differs from it.
C10_Witness ==
    /\ ext.called /\ ext.parsed /\ ext.wrote
    /\ snapAtStart.exists
    /\ JsonLoads(snapAtStart.content).ok
    /\ JsonLoads(snapAtStart.content).val # ext.payload
    /\ JsonLoads(snapshot.content).val = ext.payload

====
